---- MODULE Spec2Model ----
(***************************************************************************)
(* LCOV ingestion of the coverage report action: the record parser         *)
(* (parseLcovData), the aggregator (lcovToCoverageReport), the summary and *)
(* final-map builders (lcovToJsonSummary, lcovToJsonFinal) and the two     *)
(* report loaders (parseBunLcovSummary, parseBunLcovFinal).                *)
(*                                                                         *)
(* Text is a sequence of one-character strings, so that trim, startsWith,  *)
(* substring, split and parseInt are computed as the code computes them.   *)
(* A JavaScript number produced by parseInt is [nan, v]: NaN or the        *)
(* integer v.  A percentage is kept in hundredths (pct 33.33 is v = 3333). *)
(***************************************************************************)
EXTENDS Integers, Sequences, FiniteSets, TLC

VARIABLES
    entry,          \* which loader runs: "summary" or "final"
    readable,       \* whether readFile(resolvedPath) succeeds
    lcovContent,    \* the text of the file
    pc,             \* "start", "parsing", "returned", "thrown"
    lines,          \* lcovContent.split('\n')
    idx,            \* the line the for-loop handles next (1-based)
    records,        \* parseLcovData's output sequence
    currentRecord,  \* <<>> for null, <<r>> for an open record r
    summary,        \* the JsonSummary returned: entries in insertion order
    final,          \* the JsonFinal returned: a map keyed by sourceFile
    failed,         \* core.setFailed was called
    warnings        \* number of core.warning calls

vars == <<entry, readable, lcovContent, pc, lines, idx, records,
          currentRecord, summary, final, failed, warnings>>

----------------------------------------------------------------------------
(* Bounds of the model *)

MaxFragments == 3

----------------------------------------------------------------------------
(* JavaScript numbers and strings *)

NaN == [nan |-> TRUE, v |-> 0]

Num(n) == [nan |-> FALSE, v |-> n]

\* a + b
JsAdd(a, b) == IF a.nan \/ b.nan THEN NaN ELSE Num(a.v + b.v)

\* a > 0 (false for NaN)
JsGtZero(a) == ~a.nan /\ a.v > 0

IsWhite(ch) == ch \in {" ", "\t", "\r", "\n"}

IsDigit(ch) == ch \in {"0", "1", "2", "3", "4", "5", "6", "7", "8", "9"}

DigitVal(ch) ==
    CASE ch = "0" -> 0 [] ch = "1" -> 1 [] ch = "2" -> 2 [] ch = "3" -> 3
      [] ch = "4" -> 4 [] ch = "5" -> 5 [] ch = "6" -> 6 [] ch = "7" -> 7
      [] ch = "8" -> 8 [] ch = "9" -> 9

DigitChar(d) == <<"0", "1", "2", "3", "4", "5", "6", "7", "8", "9">>[d + 1]

RECURSIVE trimStart(_)
trimStart(s) ==
    IF s # <<>> /\ IsWhite(Head(s)) THEN trimStart(Tail(s)) ELSE s

RECURSIVE trimEnd(_)
trimEnd(s) ==
    IF s # <<>> /\ IsWhite(s[Len(s)]) THEN trimEnd(SubSeq(s, 1, Len(s) - 1))
    ELSE s

\* String.prototype.trim
trim(s) == trimEnd(trimStart(s))

\* String.prototype.startsWith
startsWith(s, p) == Len(s) >= Len(p) /\ SubSeq(s, 1, Len(p)) = p

\* String.prototype.substring(n)
substring(s, n) == SubSeq(s, n + 1, Len(s))

\* String.prototype.split(sep) for a one-character separator: the parts
\* between consecutive separators, the text's two ends included
split(s, sep) ==
    LET seps   == {i \in 1..Len(s) : s[i] = sep}
        cut(k) == IF k = 0 THEN 0
                  ELSE IF k > Cardinality(seps) THEN Len(s) + 1
                  ELSE CHOOSE i \in seps : Cardinality({j \in seps : j < i}) = k - 1
    IN  [k \in 1..(Cardinality(seps) + 1) |-> SubSeq(s, cut(k - 1) + 1, cut(k) - 1)]

\* the digits at the head of s, as a number; acc is the value so far
RECURSIVE digitsValue(_, _)
digitsValue(s, acc) ==
    IF s # <<>> /\ IsDigit(Head(s))
    THEN digitsValue(Tail(s), 10 * acc + DigitVal(Head(s)))
    ELSE acc

\* parseInt(str, 10): leading white space skipped, an optional sign, then the
\* longest run of digits; NaN when there is no digit
parseInt(str) ==
    LET t    == trimStart(str)
        neg  == t # <<>> /\ Head(t) = "-"
        body == IF t # <<>> /\ Head(t) \in {"-", "+"} THEN Tail(t) ELSE t
    IN  IF body = <<>> \/ ~IsDigit(Head(body)) THEN NaN
        ELSE IF neg THEN Num(0 - digitsValue(body, 0))
        ELSE Num(digitsValue(body, 0))

\* parseInt of the i-th element of a destructured array: undefined, which
\* parseInt reads as the text "undefined", when the array is shorter
parseIntAt(parts, i) == IF i <= Len(parts) THEN parseInt(parts[i]) ELSE NaN

\* String(n) for an index n >= 0
RECURSIVE String(_)
String(n) ==
    IF n < 10 THEN <<DigitChar(n)>>
    ELSE Append(String(n \div 10), DigitChar(n % 10))

----------------------------------------------------------------------------
(* Directive prefixes *)

pSF  == <<"S", "F", ":">>
pDA  == <<"D", "A", ":">>
pFNF == <<"F", "N", "F", ":">>
pFNH == <<"F", "N", "H", ":">>
pBRF == <<"B", "R", "F", ":">>
pBRH == <<"B", "R", "H", ":">>
pEOR == <<"e", "n", "d", "_", "o", "f", "_", "r", "e", "c", "o", "r", "d">>

----------------------------------------------------------------------------
(* parseLcovData: one iteration of the loop over the lines *)

\* OnSF with the prefix cut one character short
OnSF_shortPrefix(trimmed) ==
    <<[sourceFile |-> substring(trimmed, 2),
       lines      |-> <<>>,
       functions  |-> [found |-> Num(0), hit |-> Num(0)],
       branches   |-> [found |-> Num(0), hit |-> Num(0)]]>>

\* SF: start a new record
OnSF(trimmed) ==
    <<[sourceFile |-> substring(trimmed, 3),
       lines      |-> <<>>,
       functions  |-> [found |-> Num(0), hit |-> Num(0)],
       branches   |-> [found |-> Num(0), hit |-> Num(0)]]>>

\* DA:line,hit
OnDA(cur, trimmed) ==
    LET parts   == split(substring(trimmed, 3), ",")
        lineNum == parseIntAt(parts, 1)
        hitCnt  == parseIntAt(parts, 2)
    IN  IF cur # <<>>
        THEN <<[cur[1] EXCEPT !.lines = Append(@, [line |-> lineNum, hit |-> hitCnt])]>>
        ELSE cur

OnFNF(cur, trimmed) ==
    IF cur # <<>>
    THEN <<[cur[1] EXCEPT !.functions.found = parseInt(substring(trimmed, 4))]>>
    ELSE cur

OnFNH(cur, trimmed) ==
    IF cur # <<>>
    THEN <<[cur[1] EXCEPT !.functions.hit = parseInt(substring(trimmed, 4))]>>
    ELSE cur

OnBRF(cur, trimmed) ==
    IF cur # <<>>
    THEN <<[cur[1] EXCEPT !.branches.found = parseInt(substring(trimmed, 4))]>>
    ELSE cur

\* OnBRH opening a record of its own when none is open
OnBRH_autoOpen(cur, trimmed) ==
    IF cur # <<>>
    THEN <<[cur[1] EXCEPT !.branches.hit = parseInt(substring(trimmed, 4))]>>
    ELSE <<[sourceFile |-> <<>>,
            lines      |-> <<>>,
            functions  |-> [found |-> Num(0), hit |-> Num(0)],
            branches   |-> [found |-> Num(0), hit |-> parseInt(substring(trimmed, 4))]]>>

OnBRH(cur, trimmed) ==
    IF cur # <<>>
    THEN <<[cur[1] EXCEPT !.branches.hit = parseInt(substring(trimmed, 4))]>>
    ELSE cur

\* OnEndOfRecord without the test of sourceFile
OnEndOfRecord_anyOpen(recs, cur) ==
    IF cur # <<>> THEN Append(recs, cur[1]) ELSE recs

\* end_of_record: the records after the line
OnEndOfRecord(recs, cur) ==
    IF cur # <<>> /\ cur[1].sourceFile # <<>> THEN Append(recs, cur[1])
    ELSE recs

\* the body of the for-loop: the records and the current record after `line`
ProcessLine(recs, cur, line) ==
    LET trimmed == trim(line)
    IN  IF trimmed = <<>> THEN [records |-> recs, currentRecord |-> cur]
        ELSE IF startsWith(trimmed, pSF)
             THEN [records |-> recs, currentRecord |-> OnSF(trimmed)]
        ELSE IF startsWith(trimmed, pDA)
             THEN [records |-> recs, currentRecord |-> OnDA(cur, trimmed)]
        ELSE IF startsWith(trimmed, pFNF)
             THEN [records |-> recs, currentRecord |-> OnFNF(cur, trimmed)]
        ELSE IF startsWith(trimmed, pFNH)
             THEN [records |-> recs, currentRecord |-> OnFNH(cur, trimmed)]
        ELSE IF startsWith(trimmed, pBRF)
             THEN [records |-> recs, currentRecord |-> OnBRF(cur, trimmed)]
        ELSE IF startsWith(trimmed, pBRH)
             THEN [records |-> recs, currentRecord |-> OnBRH(cur, trimmed)]
        ELSE IF trimmed = pEOR
             THEN [records |-> OnEndOfRecord(recs, cur), currentRecord |-> <<>>]
        ELSE [records |-> recs, currentRecord |-> cur]

\* parseLcovData as a function of the lines: the loop run to its end
RECURSIVE parseLoop(_, _, _, _)
parseLoop(ls, i, recs, cur) ==
    IF i > Len(ls) THEN recs
    ELSE LET st == ProcessLine(recs, cur, ls[i])
         IN  parseLoop(ls, i + 1, st.records, st.currentRecord)

parseLcovData(content) == parseLoop(split(content, "\n"), 1, <<>>, <<>>)

----------------------------------------------------------------------------
(* IEEE 754 double arithmetic, as far as the percentage needs it.  A double   *)
(* is [neg, m, e]: the value (-1)^neg * M * 2^(e - 52), where M is the 53-bit *)
(* significand held in m as five base-2^13 limbs, least significant first    *)
(* (all limbs 0 for the value 0).  Every operation rounds to nearest, ties   *)
(* to even.                                                                  *)

LimbBase == 2 ^ 13

Abs(n) == IF n < 0 THEN 0 - n ELSE n

FZero == [neg |-> FALSE, m |-> <<0, 0, 0, 0, 0>>, e |-> 0]

IsFZero(f) == f.m = <<0, 0, 0, 0, 0>>

\* m * k, the carry kept in the top limb
RECURSIVE mulCarry(_, _, _, _)
mulCarry(m, k, i, carry) ==
    LET p == m[i] * k + carry
    IN  IF i = Len(m) THEN <<p>>
        ELSE <<p % LimbBase>> \o mulCarry(m, k, i + 1, p \div LimbBase)

BigMulSmall(m, k) == mulCarry(m, k, 1, 0)

\* m divided by a small d, from the top limb down: quotient and remainder
RECURSIVE divFrom(_, _, _, _)
divFrom(m, d, i, rem) ==
    IF i = 0 THEN [q |-> <<>>, r |-> rem]
    ELSE LET cur  == rem * LimbBase + m[i]
             rest == divFrom(m, d, i - 1, cur % d)
         IN  [q |-> Append(rest.q, cur \div d), r |-> rest.r]

BigDivSmall(m, d) == divFrom(m, d, Len(m), 0)

\* m + 1, the carry kept in the top limb
RECURSIVE BigInc(_)
BigInc(m) ==
    IF Len(m) = 1 THEN <<m[1] + 1>>
    ELSE IF m[1] + 1 < LimbBase THEN <<m[1] + 1>> \o Tail(m)
    ELSE <<0>> \o BigInc(Tail(m))

RECURSIVE BigToInt(_)
BigToInt(m) == IF m = <<>> THEN 0 ELSE m[1] + LimbBase * BigToInt(Tail(m))

\* a significand that rounding carried to 2^53 becomes 2^52, one exponent up
Normalise(neg, m, e) ==
    IF m[5] >= 2 THEN [neg |-> neg, m |-> <<0, 0, 0, 0, 1>>, e |-> e + 1]
    ELSE [neg |-> neg, m |-> m, e |-> e]

\* floor(log2(a / t)) for a, t > 0
RECURSIVE log2Floor(_, _)
log2Floor(a, t) ==
    IF a >= t THEN (IF a >= 2 * t THEN 1 + log2Floor(a, 2 * t) ELSE 0)
    ELSE log2Floor(2 * a, t) - 1

\* n limbs of the fraction r / den, most significant first, and what is left
RECURSIVE fracLimbs(_, _, _)
fracLimbs(r, den, n) ==
    IF n = 0 THEN [ds |-> <<>>, r |-> r]
    ELSE LET rest == fracLimbs((r * LimbBase) % den, den, n - 1)
         IN  [ds |-> <<(r * LimbBase) \div den>> \o rest.ds, r |-> rest.r]

\* the double c / t of two integers, t > 0
FDiv(c, t) ==
    IF c = 0 THEN FZero
    ELSE LET a   == Abs(c)
             e   == log2Floor(a, t)
             num == IF e >= 0 THEN a ELSE a * 2 ^ (0 - e)
             den == IF e >= 0 THEN t * 2 ^ e ELSE t
             fl  == fracLimbs(num - den, den, 4)
             m   == <<fl.ds[4], fl.ds[3], fl.ds[2], fl.ds[1], 1>>
             up  == 2 * fl.r > den \/ (2 * fl.r = den /\ m[1] % 2 = 1)
         IN  Normalise(c < 0, IF up THEN BigInc(m) ELSE m, e)

\* the double f * 100
FMul100(f) ==
    IF IsFZero(f) THEN f
    ELSE LET p  == BigMulSmall(f.m, 100)
             s  == IF p[5] >= 2 ^ 7 THEN 7 ELSE 6
             qr == BigDivSmall(p, 2 ^ s)
             up == 2 * qr.r > 2 ^ s \/ (2 * qr.r = 2 ^ s /\ qr.q[1] % 2 = 1)
         IN  Normalise(f.neg, IF up THEN BigInc(qr.q) ELSE qr.q, f.e + s)

\* floor(2 * |f|) and whether 2 * |f| has a fraction, for |f| < 2^29
TwiceFloor(f) ==
    LET sh    == 51 - f.e
        drop  == IF sh \div 13 > 5 THEN 5 ELSE sh \div 13
        bits  == IF sh \div 13 >= 5 THEN 0 ELSE sh % 13
        lost  == \E i \in 1..drop : f.m[i] # 0
        qr    == BigDivSmall(SubSeq(f.m, drop + 1, 5), 2 ^ bits)
    IN  [y |-> BigToInt(qr.q), sticky |-> lost \/ qr.r # 0]

\* Math.round: the integer nearest to f, a tie going towards +Infinity
MathRound(f) ==
    LET tf == TwiceFloor(f)
    IN  IF ~f.neg THEN (tf.y + 1) \div 2
        ELSE IF tf.sticky THEN 0 - ((tf.y + 1) \div 2)
        ELSE 0 - (tf.y \div 2)

\* total > 0 ? Math.round((covered / total) * 100 * 100) / 100 : 0,
\* in hundredths
pct(covered, total) ==
    IF ~JsGtZero(total) THEN Num(0)
    ELSE IF covered.nan THEN NaN
    ELSE Num(MathRound(FMul100(FMul100(FDiv(covered.v, total.v)))))

----------------------------------------------------------------------------
(* lcovToCoverageReport *)

\* coveredCount adding up the hit counts instead of counting the lines hit
RECURSIVE coveredCount_sumHits(_)
coveredCount_sumHits(ls) ==
    IF ls = <<>> THEN 0
    ELSE (IF JsGtZero(ls[1].hit) THEN ls[1].hit.v ELSE 0) + coveredCount_sumHits(Tail(ls))

\* record.lines.filter(l => l.hit > 0).length
coveredCount(ls) == Cardinality({i \in 1..Len(ls) : JsGtZero(ls[i].hit)})

\* the for-loop over the records: acc holds the eight running sums
RECURSIVE accumulate(_, _, _)
accumulate(recs, i, acc) ==
    IF i > Len(recs) THEN acc
    ELSE LET record == recs[i]
         IN  accumulate(recs, i + 1,
               [totalLines        |-> JsAdd(acc.totalLines, Num(Len(record.lines))),
                coveredLines      |-> JsAdd(acc.coveredLines, Num(coveredCount(record.lines))),
                totalFunctions    |-> JsAdd(acc.totalFunctions, record.functions.found),
                coveredFunctions  |-> JsAdd(acc.coveredFunctions, record.functions.hit),
                totalBranches     |-> JsAdd(acc.totalBranches, record.branches.found),
                coveredBranches   |-> JsAdd(acc.coveredBranches, record.branches.hit),
                totalStatements   |-> JsAdd(acc.totalStatements, Num(Len(record.lines))),
                coveredStatements |-> JsAdd(acc.coveredStatements, Num(coveredCount(record.lines)))])

\* one metric of the returned report
Metric(total, covered) ==
    [total |-> total, covered |-> covered, skipped |-> 0, pct |-> pct(covered, total)]

lcovToCoverageReport(recs) ==
    LET zero == [totalLines |-> Num(0), coveredLines |-> Num(0),
                 totalFunctions |-> Num(0), coveredFunctions |-> Num(0),
                 totalBranches |-> Num(0), coveredBranches |-> Num(0),
                 totalStatements |-> Num(0), coveredStatements |-> Num(0)]
        acc  == accumulate(recs, 1, zero)
    IN  [lines      |-> Metric(acc.totalLines, acc.coveredLines),
         statements |-> Metric(acc.totalStatements, acc.coveredStatements),
         functions  |-> Metric(acc.totalFunctions, acc.coveredFunctions),
         branches   |-> Metric(acc.totalBranches, acc.coveredBranches)]

----------------------------------------------------------------------------
(* lcovToJsonSummary: the summary object is its entries in insertion order *)

kTotal == <<"t", "o", "t", "a", "l">>

HasKey(obj, k) == \E i \in 1..Len(obj) : obj[i].key = k

KeyIndex(obj, k) == CHOOSE i \in 1..Len(obj) : obj[i].key = k

\* ObjSet deleting a key already present and inserting it anew, at the end
ObjSet_reinsert(obj, k, v) ==
    LET NotK(e) == e.key # k
    IN  Append(SelectSeq(obj, NotK), [key |-> k, value |-> v])

\* obj[k] = v: a key already present keeps its place and takes the new value
ObjSet(obj, k, v) ==
    IF HasKey(obj, k) THEN [obj EXCEPT ![KeyIndex(obj, k)].value = v]
    ELSE Append(obj, [key |-> k, value |-> v])

\* obj[k], for a key that is present
ObjGet(obj, k) == obj[KeyIndex(obj, k)].value

\* the keys of obj in the order they were inserted
ObjKeys(obj) == [i \in 1..Len(obj) |-> obj[i].key]

\* the for-loop that adds the individual file reports
RECURSIVE addFileReports(_, _, _)
addFileReports(obj, recs, i) ==
    IF i > Len(recs) THEN obj
    ELSE addFileReports(
           ObjSet(obj, recs[i].sourceFile, lcovToCoverageReport(<<recs[i]>>)),
           recs, i + 1)

lcovToJsonSummary(recs) ==
    addFileReports(<<[key |-> kTotal, value |-> lcovToCoverageReport(recs)]>>, recs, 1)

----------------------------------------------------------------------------
(* lcovToJsonFinal: the final object and its statement maps are maps by key *)

EmptyMap == [k \in {} |-> 0]

\* map[k] = v
MapSet(map, k, v) ==
    [x \in DOMAIN map \cup {k} |-> IF x = k THEN v ELSE map[x]]

\* buildStatementMap keyed by the LCOV line number instead of the index
RECURSIVE buildStatementMap_byLineNumber(_, _, _)
buildStatementMap_byLineNumber(ls, i, map) ==
    IF i > Len(ls) THEN map
    ELSE buildStatementMap_byLineNumber(ls, i + 1,
           MapSet(map, String(Abs(ls[i].line.v)),
                  [start |-> [line |-> ls[i].line, column |-> 0],
                   end   |-> [line |-> ls[i].line, column |-> 100]]))

\* record.lines.forEach((line, index) => ...): statementMap after the lines
RECURSIVE buildStatementMap(_, _, _)
buildStatementMap(ls, i, map) ==
    IF i > Len(ls) THEN map
    ELSE buildStatementMap(ls, i + 1,
           MapSet(map, String(i - 1),
                  [start |-> [line |-> ls[i].line, column |-> 0],
                   end   |-> [line |-> ls[i].line, column |-> 100]]))

\* the same loop: statementCoverage after the lines
RECURSIVE buildStatementCoverage(_, _, _)
buildStatementCoverage(ls, i, map) ==
    IF i > Len(ls) THEN map
    ELSE buildStatementCoverage(ls, i + 1, MapSet(map, String(i - 1), ls[i].hit))

FileCoverage(record) ==
    [path         |-> record.sourceFile,
     all          |-> FALSE,
     statementMap |-> buildStatementMap(record.lines, 1, EmptyMap),
     s            |-> buildStatementCoverage(record.lines, 1, EmptyMap)]

RECURSIVE addFileCoverage(_, _, _)
addFileCoverage(map, recs, i) ==
    IF i > Len(recs) THEN map
    ELSE addFileCoverage(MapSet(map, recs[i].sourceFile, FileCoverage(recs[i])),
                         recs, i + 1)

lcovToJsonFinal(recs) == addFileCoverage(EmptyMap, recs, 1)

----------------------------------------------------------------------------
(* The LCOV texts the loaders are run on: up to MaxFragments fragments, one *)
(* per line or block of lines, joined by line breaks                        *)

NL == <<"\n">>

Fragments ==
    { \* SF:a / DA:5,1 / DA:9,0 / end_of_record
      pSF \o <<"a">> \o NL \o pDA \o <<"5", ",", "1">> \o NL
          \o pDA \o <<"9", ",", "0">> \o NL \o pEOR,
      \* SF:b / DA:1,1 / FNF:160 / FNH:23 / BRF:2 / BRH:3 / end_of_record
      pSF \o <<"b">> \o NL \o pDA \o <<"1", ",", "1">> \o NL
          \o pFNF \o <<"1", "6", "0">> \o NL \o pFNH \o <<"2", "3">> \o NL
          \o pBRF \o <<"2">> \o NL \o pBRH \o <<"3">> \o NL \o pEOR,
      \* SF:total / DA:1,0 / end_of_record
      pSF \o kTotal \o NL \o pDA \o <<"1", ",", "0">> \o NL \o pEOR,
      \* SF:a / DA:2,1 / DA:3,4 / DA:4,0 / FNF:3 / FNH:-1 / end_of_record
      pSF \o <<"a">> \o NL \o pDA \o <<"2", ",", "1">> \o NL
          \o pDA \o <<"3", ",", "4">> \o NL \o pDA \o <<"4", ",", "0">> \o NL
          \o pFNF \o <<"3">> \o NL \o pFNH \o <<"-", "1">> \o NL \o pEOR,
      \* single lines: an SF: line, an SF: line with no path, a DA line with
      \* no hit count, a BRH line with no number, end_of_record between white
      \* space, a blank line, a directive the parser does not know
      pSF \o <<"b">>,
      pSF \o <<" ">>,
      pDA \o <<"8">>,
      pBRH \o <<"x">>,
      <<" ", "\t">> \o pEOR \o <<"\r">>,
      <<>>,
      <<"T", "N", ":", "t">> }

RECURSIVE Join(_)
Join(fs) ==
    IF fs = <<>> THEN <<>>
    ELSE IF Len(fs) = 1 THEN fs[1]
    ELSE fs[1] \o NL \o Join(Tail(fs))

Inputs == {Join(fs) : fs \in UNION {[1..n -> Fragments] : n \in 0..MaxFragments}}

----------------------------------------------------------------------------
(* The loaders parseBunLcovSummary and parseBunLcovFinal *)

Init ==
    /\ entry \in {"summary", "final"}
    /\ readable \in BOOLEAN
    /\ lcovContent \in (IF readable THEN Inputs ELSE {<<>>})
    /\ pc = "start"
    /\ lines = <<>>
    /\ idx = 1
    /\ records = <<>>
    /\ currentRecord = <<>>
    /\ summary = <<>>
    /\ final = EmptyMap
    /\ failed = FALSE
    /\ warnings = 0

\* await readFile(resolvedPath, 'utf8') succeeds; parseLcovData starts
ReadFile ==
    /\ pc = "start"
    /\ readable
    /\ lines' = split(lcovContent, "\n")
    /\ idx' = 1
    /\ records' = <<>>
    /\ currentRecord' = <<>>
    /\ pc' = "parsing"
    /\ UNCHANGED <<entry, readable, lcovContent, summary, final, failed, warnings>>

\* one iteration of parseLcovData's loop
ParseLine ==
    /\ pc = "parsing"
    /\ idx <= Len(lines)
    /\ LET st == ProcessLine(records, currentRecord, lines[idx])
       IN  /\ records' = st.records
           /\ currentRecord' = st.currentRecord
    /\ idx' = idx + 1
    /\ UNCHANGED <<entry, readable, lcovContent, pc, lines, summary, final,
                   failed, warnings>>

\* parseBunLcovSummary: return lcovToJsonSummary(records)
SummaryReturn ==
    /\ pc = "parsing"
    /\ idx > Len(lines)
    /\ entry = "summary"
    /\ summary' = lcovToJsonSummary(records)
    /\ pc' = "returned"
    /\ UNCHANGED <<entry, readable, lcovContent, lines, idx, records,
                   currentRecord, final, failed, warnings>>

\* parseBunLcovFinal: return lcovToJsonFinal(records)
FinalReturn ==
    /\ pc = "parsing"
    /\ idx > Len(lines)
    /\ entry = "final"
    /\ final' = lcovToJsonFinal(records)
    /\ pc' = "returned"
    /\ UNCHANGED <<entry, readable, lcovContent, lines, idx, records,
                   currentRecord, summary, failed, warnings>>

\* SummaryCatch swallowing the error instead of throwing it again
SummaryCatch_swallow ==
    /\ pc = "start"
    /\ ~readable
    /\ entry = "summary"
    /\ failed' = TRUE
    /\ pc' = "returned"
    /\ UNCHANGED <<entry, readable, lcovContent, lines, idx, records,
                   currentRecord, summary, final, warnings>>

\* parseBunLcovSummary's catch: core.setFailed, then throw err
SummaryCatch ==
    /\ pc = "start"
    /\ ~readable
    /\ entry = "summary"
    /\ failed' = TRUE
    /\ pc' = "thrown"
    /\ UNCHANGED <<entry, readable, lcovContent, lines, idx, records,
                   currentRecord, summary, final, warnings>>

\* parseBunLcovFinal's catch: core.warning, then return {}
FinalCatch ==
    /\ pc = "start"
    /\ ~readable
    /\ entry = "final"
    /\ warnings' = warnings + 1
    /\ final' = EmptyMap
    /\ pc' = "returned"
    /\ UNCHANGED <<entry, readable, lcovContent, lines, idx, records,
                   currentRecord, summary, failed>>

Next ==
    \/ ReadFile
    \/ ParseLine
    \/ SummaryReturn
    \/ FinalReturn
    \/ SummaryCatch
    \/ FinalCatch

Spec == Init /\ [][Next]_vars

----------------------------------------------------------------------------
(* Vocabulary of the properties *)

\* what a line is, by its trimmed text
Directive(line) ==
    LET t == trim(line)
    IN  IF t = <<>> THEN "blank"
        ELSE IF startsWith(t, pSF) THEN "SF"
        ELSE IF startsWith(t, pDA) THEN "DA"
        ELSE IF startsWith(t, pFNF) THEN "FNF"
        ELSE IF startsWith(t, pFNH) THEN "FNH"
        ELSE IF startsWith(t, pBRF) THEN "BRF"
        ELSE IF startsWith(t, pBRH) THEN "BRH"
        ELSE IF t = pEOR THEN "EOR"
        ELSE "other"

\* the path an SF: line names
PathOf(line) == substring(trim(line), 3)

IsSFLine(line) == Directive(line) = "SF"

\* the loop of parseLcovData has handled every line
ParseDone ==
    /\ readable
    /\ \/ pc = "parsing" /\ idx > Len(lines)
       \/ pc = "returned"

SummaryReturned == readable /\ entry = "summary" /\ pc = "returned"

FinalReturned == readable /\ entry = "final" /\ pc = "returned"

\* the lines from position i on are whole blocks (blank lines apart): an SF:
\* line with a path, then DA/FNF/FNH/BRF/BRH lines, then end_of_record
RECURSIVE WellFormedFrom(_, _, _)
WellFormedFrom(ls, i, open) ==
    IF i > Len(ls) THEN ~open
    ELSE LET d == Directive(ls[i])
         IN  CASE d = "blank" -> WellFormedFrom(ls, i + 1, open)
               [] d = "SF" -> ~open /\ PathOf(ls[i]) # <<>> /\ WellFormedFrom(ls, i + 1, TRUE)
               [] d \in {"DA", "FNF", "FNH", "BRF", "BRH"} ->
                      open /\ WellFormedFrom(ls, i + 1, TRUE)
               [] d = "EOR" -> open /\ WellFormedFrom(ls, i + 1, FALSE)
               [] OTHER -> FALSE

WellFormed(ls) == WellFormedFrom(ls, 1, FALSE)

\* C1: For a text made of N well-formed blocks parseLcovData returns
\* exactly N records, and the i-th record's sourceFile is the path of the i-th
\* block, in input order.
C1_RecordPerBlock ==
    (ParseDone /\ WellFormed(lines)) =>
        LET sf == SelectSeq(lines, IsSFLine)
        IN  /\ Len(records) = Len(sf)
            /\ \A i \in 1..Len(sf) : records[i].sourceFile = PathOf(sf[i])

\* C1's case: a well-formed text of at least two blocks of different files,
\* parsed to its end
C1_Witness ==
    /\ ParseDone
    /\ WellFormed(lines)
    /\ Len(records) >= 2
    /\ records[1].sourceFile # records[2].sourceFile

\* the current record after lines i..j of ls, handled from `cur` on
RECURSIVE currentAfter(_, _, _, _)
currentAfter(ls, i, j, cur) ==
    IF i > j THEN cur
    ELSE currentAfter(ls, i + 1, j, ProcessLine(<<>>, cur, ls[i]).currentRecord)

\* the SF: and end_of_record lines before line n
MarksBefore(ls, n) == {i \in 1..(n - 1) : Directive(ls[i]) \in {"SF", "EOR"}}

\* line n closes a block: it is an end_of_record, and the nearest SF: or
\* end_of_record line before it is an SF: line with a path
ClosesBlock(ls, n) ==
    /\ Directive(ls[n]) = "EOR"
    /\ MarksBefore(ls, n) # {}
    /\ LET i == CHOOSE i \in MarksBefore(ls, n) : \A j \in MarksBefore(ls, n) : j <= i
       IN  Directive(ls[i]) = "SF" /\ PathOf(ls[i]) # <<>>

\* the SF: line of the block that line n closes
BlockStart(ls, n) ==
    CHOOSE i \in MarksBefore(ls, n) : \A j \in MarksBefore(ls, n) : j <= i

\* the records of the closed blocks among the first n lines, each built from
\* its own lines alone, in the order of their end_of_record lines
RECURSIVE closedRecords(_, _)
closedRecords(ls, n) ==
    IF n = 0 THEN <<>>
    ELSE IF ClosesBlock(ls, n)
         THEN Append(closedRecords(ls, n - 1),
                     currentAfter(ls, BlockStart(ls, n), n - 1, <<>>)[1])
         ELSE closedRecords(ls, n - 1)

\* the output of the finished loop is the records of the closed blocks
OutputIsClosedBlocks == ParseDone => records = closedRecords(lines, Len(lines))

\* the output changes only by an end_of_record line appending the open record,
\* whose sourceFile is not empty
AppendOnlyAtEnd ==
    records' # records =>
        /\ pc = "parsing" /\ idx <= Len(lines)
        /\ Directive(lines[idx]) = "EOR"
        /\ currentRecord # <<>>
        /\ currentRecord[1].sourceFile # <<>>
        /\ records' = Append(records, currentRecord[1])

\* C2: A record is appended to the output only when an end_of_record
\* line is handled while a record with a non-empty sourceFile is open, and the
\* output of the whole loop is exactly the records of the closed blocks (opened
\* by an SF: line with a path and ended by their own end_of_record), each with
\* the values of its own lines only: a block cut short by another SF: line or
\* by the end of the input gives no record and none of its values.
C2_OnlyClosedBlocks == []OutputIsClosedBlocks /\ [][AppendOnlyAtEnd]_vars

\* C2's case: an SF: block with a DA line is cut short by the next SF: line,
\* and a record has been output
C2_Witness ==
    /\ ParseDone
    /\ Len(records) >= 1
    /\ \E i, k \in 1..Len(lines) :
          /\ i + 1 < k
          /\ Directive(lines[i]) = "SF" /\ PathOf(lines[i]) # <<>>
          /\ Directive(lines[k]) = "SF"
          /\ \A m \in (i + 1)..(k - 1) : Directive(lines[m]) = "DA"

\* the last record of a file
LastOf(recs, k) ==
    recs[CHOOSE i \in 1..Len(recs) :
            /\ recs[i].sourceFile = k
            /\ \A j \in (i + 1)..Len(recs) : recs[j].sourceFile # k]

\* the sum of a sequence of numbers, as JavaScript adds
RECURSIVE SumSeq(_)
SumSeq(q) == IF q = <<>> THEN Num(0) ELSE JsAdd(q[1], SumSeq(Tail(q)))

\* the sum of F over the records
SumOf(recs, F(_)) == SumSeq([i \in 1..Len(recs) |-> F(recs[i])])

\* C3: The summary returned by lcovToJsonSummary has under "total"
\* exactly lcovToCoverageReport of all the records, whatever the records'
\* sourceFile values are.
C3_TotalIsAggregate ==
    SummaryReturned => ObjGet(summary, kTotal) = lcovToCoverageReport(records)

\* C4: When records share a sourceFile the summary has one entry under
\* that key, the bundle of the last such record alone, while the entry under
\* "total" still counts the lines, functions and branches of every record.
C4_LastWriteWins ==
    (SummaryReturned /\ \E i, j \in 1..Len(records) :
                            i < j /\ records[i].sourceFile = records[j].sourceFile) =>
        LET total == ObjGet(summary, kTotal)
            NLines(r) == Num(Len(r.lines))
            NFound(r) == r.functions.found
            NBrFound(r) == r.branches.found
        IN  /\ \A i, j \in 1..Len(records) :
                  (i < j /\ records[i].sourceFile = records[j].sourceFile) =>
                      LET k == records[i].sourceFile
                      IN  /\ Cardinality({n \in 1..Len(summary) : summary[n].key = k}) = 1
                          /\ ObjGet(summary, k) = lcovToCoverageReport(<<LastOf(records, k)>>)
            /\ total.lines.total = SumOf(records, NLines)
            /\ total.functions.total = SumOf(records, NFound)
            /\ total.branches.total = SumOf(records, NBrFound)

\* C5: When reading the file fails, parseBunLcovSummary marks the run
\* as failed and throws without returning a summary, while parseBunLcovFinal
\* throws nothing, logs one warning and returns the empty map.
C5_FatalVersusRecoverable ==
    (~readable /\ pc # "start") =>
        /\ entry = "summary" =>
              failed /\ pc = "thrown" /\ summary = <<>> /\ warnings = 0
        /\ entry = "final" =>
              ~failed /\ pc = "returned" /\ final = EmptyMap /\ warnings = 1

\* C5's case: the final-map loader has met the failed read
C5_Witness == ~readable /\ entry = "final" /\ pc = "returned"

\* the metrics of a bundle
MetricsOf(b) == {b.lines, b.statements, b.functions, b.branches}

\* the bundles lcovToCoverageReport produced for the summary
BundlesProduced ==
    {lcovToCoverageReport(records)} \cup
    {lcovToCoverageReport(<<records[i]>>) : i \in 1..Len(records)}

\* C6: For each metric of every bundle with integer total and covered:
\* pct is 0 when total > 0 fails, and otherwise (covered / total) * 100 rounded
\* half-up to two decimals: 100 * pct = floor((20000 * covered + total) /
\* (2 * total)).
C6_PctHalfUp ==
    SummaryReturned =>
        \A b \in BundlesProduced : \A m \in MetricsOf(b) :
            (~m.total.nan /\ ~m.covered.nan) =>
                /\ ~m.pct.nan
                /\ m.total.v <= 0 => m.pct.v = 0
                /\ m.total.v > 0 =>
                      m.pct.v = (20000 * m.covered.v + m.total.v) \div (2 * m.total.v)

\* C7: Every entry of the final map has path = its key and all = false,
\* and for the last record of that file: the keys of statementMap and of s are
\* exactly the indices 0..len(lines)-1 as strings, statementMap[String(i)] spans
\* line lines[i].line from column 0 to column 100, and s[String(i)] is
\* lines[i].hit.
C7_FinalMapIndexing ==
    FinalReturned =>
        /\ DOMAIN final = {records[i].sourceFile : i \in 1..Len(records)}
        /\ \A k \in DOMAIN final :
              LET ls == LastOf(records, k).lines
                  e  == final[k]
                  ids == {String(i - 1) : i \in 1..Len(ls)}
              IN  /\ e.path = k
                  /\ e.all = FALSE
                  /\ DOMAIN e.statementMap = ids
                  /\ DOMAIN e.s = ids
                  /\ \A i \in 1..Len(ls) :
                        /\ e.statementMap[String(i - 1)] =
                              [start |-> [line |-> ls[i].line, column |-> 0],
                               end   |-> [line |-> ls[i].line, column |-> 100]]
                        /\ e.s[String(i - 1)] = ls[i].hit

\* C7's case: a final map with a record whose line numbers differ from the
\* positions of its lines
C7_Witness ==
    /\ FinalReturned
    /\ \E k \in DOMAIN final :
          /\ DOMAIN final[k].s = {<<"0">>, <<"1">>}
          /\ final[k].statementMap[<<"0">>].start.line = Num(5)
          /\ final[k].statementMap[<<"1">>].end.line = Num(9)
          /\ final[k].s[<<"0">>] = Num(1)

\* the elements of a sequence in the order of their first occurrence
RECURSIVE FirstOccurrences(_)
FirstOccurrences(q) ==
    IF q = <<>> THEN <<>>
    ELSE LET init == FirstOccurrences(SubSeq(q, 1, Len(q) - 1))
             x    == q[Len(q)]
         IN  IF \E i \in 1..Len(init) : init[i] = x THEN init ELSE Append(init, x)

\* C8: In the summary the key "total" is inserted first and the
\* per-file keys follow in the order their records were parsed, a repeated key
\* keeping the position of its first insertion.
C8_InsertionOrder ==
    SummaryReturned =>
        ObjKeys(summary) =
            FirstOccurrences(<<kTotal>> \o [i \in 1..Len(records) |-> records[i].sourceFile])

\* C8's case: three records, the third of the same file as the first
C8_Witness ==
    /\ SummaryReturned
    /\ Len(records) = 3
    /\ Len(summary) = 3
    /\ records[1].sourceFile = records[3].sourceFile
    /\ records[1].sourceFile # records[2].sourceFile

\* no error was raised after a successful read
NoErrorRaised == readable => (pc # "thrown" /\ ~failed /\ warnings = 0)

\* what one iteration of the loop leaves unchanged
IgnoredLineFrame ==
    (pc = "parsing" /\ idx <= Len(lines) /\ idx' = idx + 1) =>
        LET d == Directive(lines[idx])
        IN  /\ (currentRecord = <<>> /\ d # "SF") =>
                  (records' = records /\ currentRecord' = <<>>)
            /\ d \in {"blank", "other"} =>
                  (records' = records /\ currentRecord' = currentRecord)

\* C9: parseLcovData never raises an error; a line that is not an SF:
\* line, handled while no record is open, leaves the output and the empty
\* current-record slot unchanged; a blank or unrecognized line handled while a
\* record is open changes nothing.
C9_TolerantFrame == []NoErrorRaised /\ [][IgnoredLineFrame]_vars

\* C9's case: a DA line was handled right after an end_of_record that output
\* a record, so with no record open
C9_Witness ==
    /\ readable
    /\ pc = "parsing"
    /\ idx > 2
    /\ Directive(lines[idx - 2]) = "EOR"
    /\ Directive(lines[idx - 1]) \in {"DA", "FNF", "FNH", "BRF", "BRH", "EOR"}
    /\ Len(records) >= 1
    /\ currentRecord = <<>>

\* C10: In every bundle the lines and statements metrics are the same
\* and have 0 <= covered <= total and 0 <= pct <= 100, whatever the DA lines
\* were; the functions and branches metrics take covered and total verbatim
\* from the sums of FNH/FNF and BRH/BRF, with no such bound.
C10_LinesBounded ==
    SummaryReturned =>
        LET Found(r) == r.functions.found
            Hit(r) == r.functions.hit
            BrFound(r) == r.branches.found
            BrHit(r) == r.branches.hit
            Checked(b, recs) ==
                /\ b.lines = b.statements
                /\ ~b.lines.total.nan /\ ~b.lines.covered.nan /\ ~b.lines.pct.nan
                /\ 0 <= b.lines.covered.v /\ b.lines.covered.v <= b.lines.total.v
                /\ 0 <= b.lines.pct.v /\ b.lines.pct.v <= 10000
                /\ b.functions.total = SumOf(recs, Found)
                /\ b.functions.covered = SumOf(recs, Hit)
                /\ b.branches.total = SumOf(recs, BrFound)
                /\ b.branches.covered = SumOf(recs, BrHit)
        IN  /\ Checked(lcovToCoverageReport(records), records)
            /\ \A i \in 1..Len(records) :
                  Checked(lcovToCoverageReport(<<records[i]>>), <<records[i]>>)

\* C10's case: a bundle whose lines are partly covered and whose branches
\* have more hits than were found
C10_Witness ==
    /\ SummaryReturned
    /\ \E b \in BundlesProduced :
          /\ 0 < b.lines.covered.v /\ b.lines.covered.v < b.lines.total.v
          /\ ~b.branches.total.nan /\ ~b.branches.covered.nan
          /\ b.branches.covered.v > b.branches.total.v
          /\ b.branches.pct.v > 10000

====
